---------------------------- MODULE Spec2Model ----------------------------
(***************************************************************************)
(* Model of the MSR605X protocol core:                                     *)
(*   - MSR605XDevice (src/src/msr605x/device.py): the HID transport with   *)
(*     its lock, connection fields and the polling receive loop;           *)
(*   - TrackParser (src/src/msr605x/parser.py): the write-frame encoder    *)
(*     and the response decoder, as operators on byte sequences.           *)
(* Bytes are integers 0..255, characters are their code points, time is    *)
(* counted in ticks of 5 ms.                                               *)
(***************************************************************************)
EXTENDS Integers, Sequences, FiniteSets, TLC

(***************************************************************************)
(* Bounds of the model.                                                    *)
(***************************************************************************)
\* OS handles (hid.device() objects) that may be created in one run
MaxHandles == 2
\* commands that may be written to the device in one run
MaxCmds == 2
\* reports the device may hold queued for the host
MaxQueue == 2
\* largest receive timeout, in ticks, of the receive specification
MaxTimeout == 23
\* longest track text or track bytes handed to the encoder
MaxTrackLen == 2
\* longest response handed to the decoder
MaxRespLen == 5

(***************************************************************************)
(* Program constants.                                                      *)
(***************************************************************************)
\* b'\x1b', the escape byte
ESC == 27
\* b'\x1c', the field separator
FS == 28
\* '0' and '1', the status codes after ESC
StatusOk == 48
StatusFail == 49
\* HID_REPORT_SIZE of constants.py
HID_REPORT_SIZE == 64
\* read(..., timeout_ms=100) in ticks of 5 ms
PollTicks == 20
\* time.sleep(0.01) in ticks of 5 ms
SleepTicks == 2

Threads == {1, 2}

(***************************************************************************)
(* Byte-string helpers (Python bytes methods).                             *)
(***************************************************************************)
\* s[i:i+len(pat)] == pat, with i a 0-based index
MatchAt(s, pat, i) ==
    /\ i >= 0
    /\ i + Len(pat) <= Len(s)
    /\ \A k \in 1..Len(pat) : s[i + k] = pat[k]

\* bytes.find(pat, start): lowest 0-based index >= start, or -1
Find(s, pat, start) ==
    LET hits == {i \in start..(Len(s) - Len(pat)) : MatchAt(s, pat, i)}
    IN  IF hits = {} THEN -1
        ELSE CHOOSE i \in hits : \A j \in hits : i <= j

\* pat in s
Contains(s, pat) == Find(s, pat, 0) # -1

\* bytes.rstrip(b'\x00')
RStripNul(s) ==
    LET kept == {i \in 1..Len(s) : s[i] # 0}
    IN  IF kept = {} THEN <<>>
        ELSE SubSeq(s, 1, CHOOSE i \in kept : \A j \in kept : j <= i)

\* bytes(n): n zero bytes
Zeros(n) == [i \in 1..n |-> 0]


(***************************************************************************)
(* The device side: reports of HID_REPORT_SIZE bytes.                      *)
(***************************************************************************)
DevReport(content) == content \o Zeros(HID_REPORT_SIZE - Len(content))

\* the bytes the host reads for a queue of reports; a queued report is kept
\* without its zero padding, which the read delivers with it
RECURSIVE Flatten(_)
Flatten(q) ==
    IF q = <<>> THEN <<>> ELSE DevReport(Head(q).data) \o Flatten(Tail(q))

R_OK    == DevReport(<<ESC, StatusOk>>)
R_FAIL  == DevReport(<<ESC, StatusFail>>)
R_FS    == DevReport(<<65, FS>>)
R_DATA  == DevReport(<<65>>)
R_NUL   == DevReport(<<>>)
\* a full report whose last byte is ESC, and the report continuing it
R_ESC_END == [i \in 1..HID_REPORT_SIZE |-> IF i = HID_REPORT_SIZE THEN ESC ELSE 65]
R_ONE   == DevReport(<<StatusFail>>)

\* response streams the device may emit after a command
SeqStreams ==
    { <<>>, <<R_OK>>, <<R_FAIL>>, <<R_DATA>>, <<R_NUL>>,
      <<R_FS, R_FAIL>>, <<R_DATA, R_FAIL>>, <<R_ESC_END, R_ONE>> }
ConcStreams == { <<>>, <<R_OK>> }

\* payloads (command + data) handed to send_command
ShortPayload == <<ESC, 101>>
LongPayload == [i \in 1..HID_REPORT_SIZE |-> 65]
SendPayloads == {ShortPayload, LongPayload}

\* receive timeouts, in ticks
SeqTimeouts == {1, PollTicks + SleepTicks}
RecvTimeouts == 1..MaxTimeout
ConcTimeouts == {1}
\* time a read waits before data arrives, in ticks
DataDelays == {0, PollTicks - 1}

\* connect(path): 0 is None, 2 the second enumerated device
Paths == {0, 2}
\* hid.enumerate(VENDOR_ID, PRODUCT_ID): the paths of the attached devices
Enumerated == <<1, 2>>

VARIABLES
    device,       \* self._device: 0 (None) or a handle
    connected,    \* self._connected
    device_info,  \* self._device_info: 0 (None) or the path of a DeviceInfo
    lock,         \* self._lock: 0 (free) or the thread holding it
    hstate,       \* OS state of each handle: "none", "new", "open", "closed"
    hpath,        \* the path each handle was opened on
    devq,         \* reports the device has emitted and the host has not read
    cmdseq,       \* number of commands written to the device
    lastReport,   \* the last report written to the device
    notified,     \* values passed to the status callback, in order
    window,       \* a disconnect() has succeeded and no connect() has since
    th,           \* per thread: the call it is in and that call's locals
    fmt,          \* TrackParser._data_format: "ISO" or "RAW"
    track,        \* the arguments track1, track2, track3 of the encoder
    mode,         \* the encoder and decoder used: "ISO" or "RAW"
    frame,        \* the bytes built by the encoder, or handed to the decoder
    tracks,       \* the list returned by the decoder
    raised,       \* the encoder or decoder call ended in an exception
    stage,        \* "input", "encoded", "decoded" or "validated"
    vtext,        \* the argument `data` of _validate_track_data
    vtrack,       \* the argument `track_num` of _validate_track_data
    valid,        \* the value _validate_track_data returned
    panel,        \* WritePanel: write button insensitive, label, toast
    worker,       \* the thread running do_write: position and closure
    idle,         \* callbacks handed to GLib.idle_add and not yet run
    calls,        \* calls the current worker made on self.commands
    completions   \* arguments _on_write_complete has been run with

devVars == <<device, connected, device_info, lock, hstate, hpath, devq,
             cmdseq, lastReport, notified>>
validatorVars == <<vtext, vtrack, valid>>
parserVars == <<fmt, track, mode, frame, tracks, raised, stage, validatorVars>>
panelVars == <<panel, worker, idle, calls, completions>>
codecVars == <<parserVars, panelVars>>
vars == <<devVars, window, th, codecVars>>

(***************************************************************************)
(* Threads.  th[t] holds                                                   *)
(*   pc, op, arg  position, name and arguments of the call;                *)
(*   resp         receive_response's local `response`;                     *)
(*   elapsed      receive_response's time.time() - start_time, in ticks;   *)
(*   result       the value the call returned;                             *)
(* and as history of the call                                              *)
(*   writes, read the write() calls made on a handle, whether it read();   *)
(*   tag          it was made after a disconnect() and before a connect(); *)
(*   mycmd        the command it wrote (0: none);                          *)
(*   got          the number of reports it read;                           *)
(*   foreign      it read a report answering another command;              *)
(*   nodata       one of its reads returned nothing;                       *)
(*   streamFail   at return, ESC '1' was among the bytes read or queued;   *)
(*   caught       it ended in its except branch.                           *)
(***************************************************************************)
\* None, for an optional track argument
None == <<-1>>

NoArg == [payload |-> <<>>, timeout |-> 0, path |-> 0]
NoResult == [ok |-> FALSE, data |-> <<>>, msg |-> "none"]
Res(ok, data, msg) == [ok |-> ok, data |-> data, msg |-> msg]

\* the locals of a call that begins
Call(name, a) ==
    [pc |-> "idle", op |-> name, arg |-> a, resp |-> <<>>, elapsed |-> 0,
     result |-> NoResult, writes |-> 0, read |-> FALSE, tag |-> window,
     mycmd |-> 0, got |-> 0, foreign |-> FALSE, nodata |-> FALSE,
     streamFail |-> FALSE, caught |-> FALSE]

\* the call returns r
Ret(c, r) == [c EXCEPT !.pc = "idle", !.result = r, !.resp = <<>>]

\* the call returns r from its except branch
RetExcept(c, r) == Ret([c EXCEPT !.caught = TRUE], r)

Idle(t) == th[t].pc = "idle"
At(t, label) == th[t].pc = label
Set(t, c) == th' = [th EXCEPT ![t] = c]

\* __init__
InitDevice ==
    /\ device = 0
    /\ connected = FALSE
    /\ device_info = 0
    /\ lock = 0
    /\ hstate = [h \in 1..MaxHandles |-> "none"]
    /\ hpath = [h \in 1..MaxHandles |-> 0]
    /\ devq = <<>>
    /\ cmdseq = 0
    /\ lastReport = <<>>
    /\ notified = <<>>
    /\ window = FALSE
    /\ th = [t \in Threads |-> [Call("none", NoArg) EXCEPT !.tag = FALSE]]

\* _validate_track_data has not been called
InitValidator ==
    /\ vtext = <<>>
    /\ vtrack = 0
    /\ valid = FALSE

\* TrackParser.__init__, nothing encoded or decoded yet
InitParser ==
    /\ InitValidator
    /\ fmt = "ISO"
    /\ track = <<None, None, None>>
    /\ mode = "ISO"
    /\ frame = <<>>
    /\ tracks = <<>>
    /\ raised = FALSE
    /\ stage = "input"

\* WritePanel.__init__: no write requested yet
InitPanel ==
    /\ panel = [writing |-> FALSE, status |-> "Ready", toast |-> ""]
    /\ worker = [pc |-> "none", track |-> <<None, None, None>>,
                 format_id |-> "iso", verify |-> FALSE,
                 result |-> <<>>, verify_result |-> <<>>]
    /\ idle = <<>>
    /\ calls = <<>>
    /\ completions = <<>>

\* is_connected
is_connected == connected /\ device # 0

\* `with self._lock`: Lock.acquire() returns only when the lock is free
CanAcquire_NoLock(t) == TRUE
CanAcquire(t) == lock = 0

FreshHandles == {h \in 1..MaxHandles : hstate[h] = "none"}
NewHandle == CHOOSE h \in FreshHandles : \A g \in FreshHandles : h <= g

(***************************************************************************)
(* connect(path)                                                           *)
(***************************************************************************)
\* connect without lines 91-92: hid.device() is created whatever _connected
ConnectEnter_NoCheck(t, path) ==
    LET c == Call("connect", [NoArg EXCEPT !.path = path])
    IN  /\ Idle(t)
        /\ UNCHANGED codecVars
        /\ CanAcquire(t)
        /\ FreshHandles # {}
        /\ device' = NewHandle
        /\ hstate' = [hstate EXCEPT ![NewHandle] = "new"]
        /\ lock' = t
        /\ Set(t, [c EXCEPT !.pc = "c_open"])
        /\ UNCHANGED <<connected, device_info, hpath, devq, cmdseq,
                       lastReport, notified, window>>

\* lines 90-95: take the lock; "Already connected", or create hid.device()
ConnectEnter(t, path) ==
    LET c == Call("connect", [NoArg EXCEPT !.path = path])
    IN  /\ Idle(t)
        /\ UNCHANGED codecVars
        /\ CanAcquire(t)
        /\ IF connected
           THEN /\ Set(t, Ret(c, Res(FALSE, <<>>, "Already connected")))
                /\ UNCHANGED <<devVars, window>>
           ELSE /\ FreshHandles # {}
                /\ device' = NewHandle
                /\ hstate' = [hstate EXCEPT ![NewHandle] = "new"]
                /\ lock' = t
                /\ Set(t, [c EXCEPT !.pc = "c_open"])
                /\ UNCHANGED <<connected, device_info, hpath, devq, cmdseq,
                               lastReport, notified, window>>

\* an except branch of connect that does not drop the handle field
ConnectExcept_KeepsHandle(t) ==
    /\ connected' = FALSE
    /\ lock' = 0
    /\ Set(t, RetExcept(th[t], Res(FALSE, <<>>, "Connection failed")))
    /\ UNCHANGED device

\* lines 113-116: the except branch of connect
ConnectExcept(t) ==
    /\ device' = 0
    /\ connected' = FALSE
    /\ lock' = 0
    /\ Set(t, RetExcept(th[t], Res(FALSE, <<>>, "Connection failed")))

\* lines 97-100: open_path(path) or open(VENDOR_ID, PRODUCT_ID)
ConnectOpen(t) ==
    /\ At(t, "c_open")
    /\ UNCHANGED codecVars
    /\ \/ /\ hstate' = [hstate EXCEPT ![device] = "open"]
          /\ hpath' = [hpath EXCEPT ![device] =
                          IF th[t].arg.path # 0 THEN th[t].arg.path
                          ELSE Enumerated[1]]
          /\ Set(t, [th[t] EXCEPT !.pc = "c_nonblock"])
          /\ UNCHANGED <<device, connected, lock>>
       \/ \* the open raises
          /\ ConnectExcept(t)
          /\ UNCHANGED <<hstate, hpath>>
    /\ UNCHANGED <<device_info, devq, cmdseq, lastReport, notified, window>>

\* lines 102-111: set_nonblocking, _connected, device info, notification
ConnectFinish(t) ==
    /\ At(t, "c_nonblock")
    /\ UNCHANGED codecVars
    /\ \/ /\ connected' = TRUE
          /\ device_info' = IF Len(Enumerated) > 0 THEN Enumerated[1]
                            ELSE device_info
          /\ notified' = Append(notified, TRUE)
          /\ lock' = 0
          /\ window' = FALSE
          /\ th' = [u \in Threads |->
                      IF u = t
                      THEN Ret([th[t] EXCEPT !.tag = FALSE],
                               Res(TRUE, <<>>, "Connected successfully"))
                      ELSE [th[u] EXCEPT !.tag = FALSE]]
          /\ UNCHANGED device
          /\ UNCHANGED hstate
       \/ \* set_nonblocking raises: connect never calls close(); the handle
          \* stays open unless the hid library closes it when the dropped
          \* object is finalized
          /\ ConnectExcept(t)
          /\ \E s \in {"open", "closed"} :
                hstate' = [hstate EXCEPT ![device] = s]
          /\ UNCHANGED <<device_info, notified, window>>
    /\ UNCHANGED <<hpath, devq, cmdseq, lastReport>>

(***************************************************************************)
(* disconnect()                                                            *)
(***************************************************************************)
\* lines 125-127: take the lock; "Not connected" unless connected
DisconnectEnter(t) ==
    LET c == Call("disconnect", NoArg)
    IN  /\ Idle(t)
        /\ UNCHANGED codecVars
        /\ CanAcquire(t)
        /\ IF ~connected \/ device = 0
           THEN /\ Set(t, Ret(c, Res(FALSE, <<>>, "Not connected")))
                /\ UNCHANGED lock
           ELSE /\ lock' = t
                /\ Set(t, [c EXCEPT !.pc = "d_close"])
        /\ UNCHANGED <<device, connected, device_info, hstate, hpath, devq,
                       cmdseq, lastReport, notified, window>>

\* lines 129-138 with lines 131-133 left out: the handle is closed and the
\* fields keep their values
DisconnectClose_KeepFields(t) ==
    /\ At(t, "d_close")
    /\ UNCHANGED codecVars
    /\ hstate' = [hstate EXCEPT ![device] = "closed"]
    /\ notified' = Append(notified, FALSE)
    /\ window' = TRUE
    /\ lock' = 0
    /\ Set(t, Ret(th[t], Res(TRUE, <<>>, "Disconnected successfully")))
    /\ UNCHANGED <<device, connected, device_info, hpath, devq, cmdseq,
                   lastReport>>

\* lines 129-138: close(), clear the fields, notify
DisconnectClose(t) ==
    /\ At(t, "d_close")
    /\ UNCHANGED codecVars
    /\ \/ /\ hstate' = [hstate EXCEPT ![device] = "closed"]
          /\ device' = 0
          /\ connected' = FALSE
          /\ device_info' = 0
          /\ notified' = Append(notified, FALSE)
          /\ window' = TRUE
          /\ Set(t, Ret(th[t], Res(TRUE, <<>>, "Disconnected successfully")))
       \/ \* close() raises: nothing is changed
          /\ Set(t, RetExcept(th[t], Res(FALSE, <<>>, "Disconnect failed")))
          /\ UNCHANGED <<hstate, device, connected, device_info, notified,
                         window>>
    /\ lock' = 0
    /\ UNCHANGED <<hpath, devq, cmdseq, lastReport>>

(***************************************************************************)
(* send_command(command, data)                                             *)
(***************************************************************************)
Sending == {t \in Threads : th[t].pc \in {"s_lock", "s_write"}}

\* lines 151-152, for send_command and as the first half of send_and_receive
SendCheck(t, name, payload, tmo) ==
    LET c == Call(name, [NoArg EXCEPT !.payload = payload, !.timeout = tmo])
    IN  /\ Idle(t)
        /\ UNCHANGED codecVars
        /\ cmdseq + Cardinality(Sending) < MaxCmds
        /\ IF ~is_connected
           THEN Set(t, Ret(c, Res(FALSE, <<>>, "none")))
           ELSE Set(t, [c EXCEPT !.pc = "s_lock"])
        /\ UNCHANGED <<devVars, window>>

\* line 154
SendLock(t) ==
    /\ At(t, "s_lock")
    /\ UNCHANGED codecVars
    /\ CanAcquire(t)
    /\ lock' = t
    /\ Set(t, [th[t] EXCEPT !.pc = "s_write"])
    /\ UNCHANGED <<device, connected, device_info, hstate, hpath, devq, cmdseq,
                   lastReport, notified, window>>

\* lines 158-163: report ID, payload, zero padding up to the report size
BuildReport(payload) ==
    LET report == <<0>> \o payload
    IN  IF Len(report) < HID_REPORT_SIZE
        THEN report \o Zeros(HID_REPORT_SIZE - Len(report))
        ELSE report

\* the device answers command c with the reports of a stream
Tagged(stream, c) ==
    [i \in 1..Len(stream) |-> [cmd |-> c, data |-> RStripNul(stream[i])]]

\* lines 155-174: build the report, write it
SendWrite(t, streams) ==
    /\ At(t, "s_write")
    /\ UNCHANGED codecVars
    /\ lock' = 0
    /\ \/ \* self._device is None: AttributeError, caught
          /\ device = 0
          /\ Set(t, RetExcept(th[t], Res(FALSE, <<>>, "none")))
          /\ UNCHANGED <<devq, cmdseq, lastReport>>
       \/ \* the write raises (always on a handle that is not open)
          /\ device # 0
          /\ Set(t, RetExcept([th[t] EXCEPT !.writes = @ + 1],
                              Res(FALSE, <<>>, "none")))
          /\ UNCHANGED <<devq, cmdseq, lastReport>>
       \/ \* the write returns a negative count
          /\ device # 0
          /\ hstate[device] = "open"
          /\ Set(t, Ret([th[t] EXCEPT !.writes = @ + 1],
                        Res(FALSE, <<>>, "none")))
          /\ UNCHANGED <<devq, cmdseq, lastReport>>
       \/ \* the report is written; the device emits its response
          /\ device # 0
          /\ hstate[device] = "open"
          /\ lastReport' = BuildReport(th[t].arg.payload)
          /\ cmdseq' = cmdseq + 1
          /\ \E st \in streams :
                /\ Len(devq) + Len(st) <= MaxQueue
                /\ devq' = devq \o Tagged(st, cmdseq + 1)
          /\ LET c == [th[t] EXCEPT !.writes = @ + 1, !.mycmd = cmdseq + 1]
             IN  IF th[t].op = "send_and_receive"
                 THEN Set(t, [c EXCEPT !.pc = "r_check"])
                 ELSE Set(t, Ret(c, Res(TRUE, <<>>, "none")))
    /\ UNCHANGED <<device, connected, device_info, hstate, hpath, notified,
                   window>>

(***************************************************************************)
(* receive_response(timeout_ms)                                            *)
(***************************************************************************)
\* lines 186-187
RecvCheck(t, c) ==
    /\ IF ~is_connected
       THEN Set(t, Ret(c, Res(FALSE, <<>>, "none")))
       ELSE Set(t, [c EXCEPT !.pc = "r_lock"])
    /\ UNCHANGED <<devVars, window, codecVars>>

\* receive_response called on its own
RecvCall(t, tmo) ==
    /\ Idle(t)
    /\ RecvCheck(t, Call("receive_response", [NoArg EXCEPT !.timeout = tmo]))

\* line 247: the second half of send_and_receive
RecvAfterSend(t) ==
    /\ At(t, "r_check")
    /\ RecvCheck(t, th[t])

\* lines 189-193
RecvLock(t) ==
    /\ At(t, "r_lock")
    /\ UNCHANGED codecVars
    /\ CanAcquire(t)
    /\ lock' = t
    /\ Set(t, [th[t] EXCEPT !.pc = "r_loop", !.resp = <<>>, !.elapsed = 0])
    /\ UNCHANGED <<device, connected, device_info, hstate, hpath, devq, cmdseq,
                   lastReport, notified, window>>

\* lines 206-212: the accumulated response holds an end marker
EndOfResponse(r) ==
    /\ Len(r) >= 2
    /\ \/ Contains(r, <<ESC, StatusOk>>)
       \/ Contains(r, <<ESC, StatusFail>>)
       \/ Contains(r, <<FS>>)

\* lines 217-220: strip the trailing zero bytes and return; q is what the
\* device still holds queued
RecvReturn(c, q) ==
    Ret([c EXCEPT !.streamFail =
                     Contains(c.resp \o Flatten(q), <<ESC, StatusFail>>)],
        Res(Len(RStripNul(c.resp)) > 0, RStripNul(c.resp), "none"))

\* receive_response without lines 222-224: the exception leaves the call
RecvExcept_Propagates(c) == [c EXCEPT !.pc = "raised"]

\* lines 222-224: the except branch of receive_response
RecvExcept(c) == RetExcept(c, Res(FALSE, <<>>, "none"))

\* a send_and_receive that sends its command again when the timeout has
\* passed without a response
RecvTimeout_Resend(t) ==
    /\ At(t, "r_loop")
    /\ UNCHANGED codecVars
    /\ th[t].elapsed > th[t].arg.timeout
    /\ IF th[t].op = "send_and_receive" /\ RStripNul(th[t].resp) = <<>>
       THEN Set(t, [th[t] EXCEPT !.pc = "s_lock"])
       ELSE Set(t, RecvReturn(th[t], devq))
    /\ lock' = 0
    /\ UNCHANGED <<device, connected, device_info, hstate, hpath, devq, cmdseq,
                   lastReport, notified, window>>

\* a receive that gives the connection up when the timeout has passed
RecvTimeout_Disconnects(t) ==
    /\ At(t, "r_loop")
    /\ UNCHANGED codecVars
    /\ th[t].elapsed > th[t].arg.timeout
    /\ Set(t, RecvReturn(th[t], devq))
    /\ lock' = 0
    /\ connected' = FALSE
    /\ UNCHANGED <<device, device_info, hstate, hpath, devq, cmdseq,
                   lastReport, notified, window>>

\* lines 196-198: the timeout has passed
RecvTimeout(t) ==
    /\ At(t, "r_loop")
    /\ UNCHANGED codecVars
    /\ th[t].elapsed > th[t].arg.timeout
    /\ Set(t, RecvReturn(th[t], devq))
    /\ lock' = 0
    /\ UNCHANGED <<device, connected, device_info, hstate, hpath, devq, cmdseq,
                   lastReport, notified, window>>

\* line 215 with the sleep as long as a poll
EmptyPollTicks_LongSleep == PollTicks + PollTicks
\* lines 201 and 215: a read that returns nothing after 100 ms, and the sleep
EmptyPollTicks == PollTicks + SleepTicks

\* lines 201-215: one read of up to 100 ms
RecvRead(t) ==
    /\ At(t, "r_loop")
    /\ UNCHANGED codecVars
    /\ th[t].elapsed <= th[t].arg.timeout
    /\ \/ \* self._device is None: AttributeError, caught
          /\ device = 0
          /\ Set(t, RecvExcept(th[t]))
          /\ lock' = 0
          /\ UNCHANGED devq
       \/ \* the read raises (always on a handle that is not open)
          /\ device # 0
          /\ Set(t, RecvExcept([th[t] EXCEPT !.read = TRUE]))
          /\ lock' = 0
          /\ UNCHANGED devq
       \/ \* a report arrives after d ticks
          /\ device # 0
          /\ hstate[device] = "open"
          /\ devq # <<>>
          /\ devq' = Tail(devq)
          /\ \E d \in DataDelays :
                LET c == [th[t] EXCEPT
                             !.read = TRUE,
                             !.got = @ + 1,
                             !.resp = @ \o DevReport(Head(devq).data),
                             !.elapsed = @ + d,
                             !.foreign = @ \/ Head(devq).cmd # th[t].mycmd]
                IN  IF EndOfResponse(c.resp)
                    THEN Set(t, RecvReturn(c, Tail(devq))) /\ lock' = 0
                    ELSE Set(t, c) /\ UNCHANGED lock
       \/ \* nothing arrives within the 100 ms; sleep 10 ms
          /\ device # 0
          /\ hstate[device] = "open"
          /\ Set(t, [th[t] EXCEPT !.read = TRUE, !.nodata = TRUE,
                                  !.elapsed = @ + EmptyPollTicks])
          /\ UNCHANGED <<devq, lock>>
    /\ UNCHANGED <<device, connected, device_info, hstate, hpath, cmdseq,
                   lastReport, notified, window>>

(***************************************************************************)
(* flush()                                                                 *)
(***************************************************************************)
\* a flush without the check of lines 251-252
FlushCheck_NoCheck(t) ==
    LET c == Call("flush", NoArg)
    IN  /\ Idle(t)
        /\ UNCHANGED codecVars
        /\ Set(t, [c EXCEPT !.pc = "f_lock"])
        /\ UNCHANGED <<devVars, window>>

\* lines 251-252
FlushCheck(t) ==
    LET c == Call("flush", NoArg)
    IN  /\ Idle(t)
        /\ UNCHANGED codecVars
        /\ IF ~is_connected
           THEN Set(t, Ret(c, NoResult))
           ELSE Set(t, [c EXCEPT !.pc = "f_lock"])
        /\ UNCHANGED <<devVars, window>>

\* line 254
FlushLock(t) ==
    /\ At(t, "f_lock")
    /\ UNCHANGED codecVars
    /\ CanAcquire(t)
    /\ lock' = t
    /\ Set(t, [th[t] EXCEPT !.pc = "f_read"])
    /\ UNCHANGED <<device, connected, device_info, hstate, hpath, devq, cmdseq,
                   lastReport, notified, window>>

\* lines 255-262: read and discard until a read returns nothing
FlushRead(t) ==
    /\ At(t, "f_read")
    /\ UNCHANGED codecVars
    /\ \/ \* self._device is None: AttributeError, passed over
          /\ device = 0
          /\ Set(t, RetExcept(th[t], NoResult))
          /\ lock' = 0
          /\ UNCHANGED devq
       \/ \* the read raises (always on a handle that is not open)
          /\ device # 0
          /\ Set(t, RetExcept([th[t] EXCEPT !.read = TRUE], NoResult))
          /\ lock' = 0
          /\ UNCHANGED devq
       \/ \* the read returns nothing within 50 ms
          /\ device # 0
          /\ hstate[device] = "open"
          /\ Set(t, Ret([th[t] EXCEPT !.read = TRUE, !.nodata = TRUE],
                        NoResult))
          /\ lock' = 0
          /\ UNCHANGED devq
       \/ \* a report is read and discarded
          /\ device # 0
          /\ hstate[device] = "open"
          /\ devq # <<>>
          /\ devq' = Tail(devq)
          /\ Set(t, [th[t] EXCEPT !.read = TRUE, !.got = @ + 1])
          /\ UNCHANGED lock
    /\ UNCHANGED <<device, connected, device_info, hstate, hpath, cmdseq,
                   lastReport, notified, window>>

(***************************************************************************)
(* Specifications                                                          *)
(***************************************************************************)
Step(t, paths, payloads, timeouts, streams) ==
    \/ \E p \in paths : ConnectEnter(t, p)
    \/ ConnectOpen(t)
    \/ ConnectFinish(t)
    \/ DisconnectEnter(t)
    \/ DisconnectClose(t)
    \/ \E pl \in payloads : SendCheck(t, "send_command", pl, 0)
    \/ \E pl \in payloads, tmo \in timeouts :
          SendCheck(t, "send_and_receive", pl, tmo)
    \/ SendLock(t)
    \/ SendWrite(t, streams)
    \/ \E tmo \in timeouts : RecvCall(t, tmo)
    \/ RecvAfterSend(t)
    \/ RecvLock(t)
    \/ RecvTimeout(t)
    \/ RecvRead(t)
    \/ FlushCheck(t)
    \/ FlushLock(t)
    \/ FlushRead(t)

\* threads calling one MSR605XDevice concurrently
Init == InitDevice /\ InitParser /\ InitPanel
Next == \E t \in Threads : Step(t, {0}, {ShortPayload}, ConcTimeouts, ConcStreams)
Spec == Init /\ [][Next]_vars

\* one thread calling it
NextSeq == Step(1, Paths, SendPayloads, SeqTimeouts, SeqStreams)
SpecSeq == Init /\ [][NextSeq]_vars

\* receive_response alone: thread 1 has connected and sent one command, the
\* device has answered it with some stream
InitRecv ==
    /\ device = 1
    /\ connected = TRUE
    /\ device_info = Enumerated[1]
    /\ lock = 0
    /\ hstate = [h \in 1..MaxHandles |-> IF h = 1 THEN "open" ELSE "none"]
    /\ hpath = [h \in 1..MaxHandles |-> IF h = 1 THEN Enumerated[1] ELSE 0]
    /\ \E st \in SeqStreams : Len(st) <= MaxQueue /\ devq = Tagged(st, 1)
    /\ cmdseq = 1
    /\ lastReport = BuildReport(ShortPayload)
    /\ notified = <<TRUE>>
    /\ window = FALSE
    /\ th = [t \in Threads |->
                IF t = 1
                THEN [Call("send_command",
                           [NoArg EXCEPT !.payload = ShortPayload])
                        EXCEPT !.tag = FALSE, !.writes = 1, !.mycmd = 1,
                               !.result = Res(TRUE, <<>>, "none")]
                ELSE [Call("none", NoArg) EXCEPT !.tag = FALSE]]
    /\ InitParser
    /\ InitPanel
NextRecv ==
    \/ \E tmo \in RecvTimeouts : RecvCall(1, tmo)
    \/ RecvLock(1)
    \/ RecvTimeout(1)
    \/ RecvRead(1)
SpecRecv == InitRecv /\ [][NextRecv]_vars

(***************************************************************************)
(* Properties of the transport                                             *)
(***************************************************************************)
Commands == {"send_command", "receive_response", "send_and_receive", "flush"}

\* C1: a send_command, receive_response, send_and_receive or flush made
\* after a successful disconnect() and before the next successful connect()
\* makes no write() or read() call on a handle and returns failure with
\* empty bytes.
C1_NoCommandAfterDisconnect ==
    \A t \in Threads :
        (th[t].tag /\ th[t].op \in Commands) =>
            /\ th[t].writes = 0
            /\ ~th[t].read
            /\ Idle(t) => (~th[t].result.ok /\ th[t].result.data = <<>>)

\* a disconnect() succeeded, and each kind of command was then refused
C1_Witness ==
    /\ window
    /\ \E h \in 1..MaxHandles : hstate[h] = "closed"
    /\ th[1].tag /\ th[1].op = "send_and_receive" /\ Idle(1)
    /\ th[2].tag /\ th[2].op = "receive_response" /\ Idle(2)

\* positions at which a thread is inside open, set_nonblocking, close,
\* write or read on a handle
HandleSection ==
    {"c_open", "c_nonblock", "d_close", "s_write", "r_loop", "f_read"}
InHandleOp(t) == th[t].pc \in HandleSection

\* C6: at most one thread at a time is executing a device-handle operation
\* (open, close, write, read), and it is the thread holding the lock.
C6_MutualExclusion ==
    \A t, u \in Threads :
        (InHandleOp(t) /\ InHandleOp(u)) => (t = u /\ lock = t)

\* one thread is inside write() while the other waits for the lock
C6_Witness ==
    \E t, u \in Threads :
        /\ th[t].pc = "s_write"
        /\ th[u].pc \in {"s_lock", "r_lock", "f_lock"}

\* a send_and_receive that has written its command and not yet returned
BetweenSendAndReceive(t) ==
    /\ th[t].op = "send_and_receive"
    /\ th[t].mycmd # 0
    /\ ~Idle(t)

\* C7 (claim as stated): no send or receive of one command occurs between
\* another command's send and its receive, and a command's receive returns
\* only reports answering its own request.
C7_StrictlySerialized ==
    /\ \A t, u \in Threads :
          (BetweenSendAndReceive(t) /\ BetweenSendAndReceive(u)) => t = u
    /\ \A t \in Threads :
          (th[t].op = "send_and_receive" /\ Idle(t) /\ th[t].result.ok) =>
              ~th[t].foreign

\* a send_and_receive that has been called and has not returned
InFlight(t) == th[t].op = "send_and_receive" /\ ~Idle(t)

\* C8 (claim as stated): at most one high-level operation is in flight; one
\* started while another is in flight has failed at once, it is not waiting.
C8_OneInFlightFailFast ==
    \A t, u \in Threads : (InFlight(t) /\ InFlight(u)) => t = u


(***************************************************************************)
(* Properties of receive_response                                          *)
(***************************************************************************)
Receives == {"receive_response", "send_and_receive"}

\* the classification rule of the command protocol (spec section 4.4): a
\* Timeout of the transport, else a response holding the failure sentinel
Classify(r) ==
    IF ~r.ok THEN "Timeout"
    ELSE IF Contains(r.data, <<ESC, StatusFail>>) THEN "DeviceReported"
    ELSE "Other"

\* the receive returned normally while the stream the device had emitted,
\* all of it there to be read without waiting and within the timeout,
\* held ESC '1'
FailureSentinelInStream(t) ==
    /\ th[t].op \in Receives
    /\ Idle(t)
    /\ th[t].streamFail
    /\ ~th[t].nodata
    /\ th[t].elapsed <= th[t].arg.timeout

\* C9 (claim as stated): when the response stream holds ESC '1' within the
\* timeout, receive returns those bytes as a successful receive and the
\* operation is classified DeviceReported, never Timeout.
C9_FailureSentinelReported ==
    \A t \in Threads :
        FailureSentinelInStream(t) =>
            /\ th[t].result.ok
            /\ Contains(th[t].result.data, <<ESC, StatusFail>>)
            /\ Classify(th[t].result) = "DeviceReported"

\* a receive in which no report has arrived
NothingArrived(t) ==
    /\ th[t].op \in Receives
    /\ th[t].got = 0
    /\ th[t].nodata
    /\ ~th[t].caught

\* C10 (amended): when the device delivers no bytes, receive_response
\* stops reading once the timeout has passed, has then waited at most
\* timeout + one poll (100 ms) + one sleep (10 ms), and returns failure
\* with empty bytes.
C10_TimeoutAfterPollAndSleep ==
    \A t \in Threads :
        NothingArrived(t) =>
            /\ th[t].elapsed <= th[t].arg.timeout + PollTicks + SleepTicks
            /\ Idle(t) =>
                  /\ th[t].result = Res(FALSE, <<>>, "none")
                  /\ th[t].elapsed > th[t].arg.timeout

\* a receive with a timeout of more than one poll returned after nothing
\* had arrived in two polls
C10_Witness ==
    /\ NothingArrived(1)
    /\ Idle(1)
    /\ th[1].arg.timeout > PollTicks
    /\ th[1].elapsed = 2 * EmptyPollTicks

\* C10 (claim as stated): ... and the total time waited does not exceed
\* timeout + one poll interval (100 ms).
C10_WithinOnePoll ==
    \A t \in Threads :
        NothingArrived(t) =>
            /\ th[t].elapsed <= th[t].arg.timeout + PollTicks
            /\ Idle(t) => th[t].result = Res(FALSE, <<>>, "none")


(***************************************************************************)
(* TrackParser: text and byte helpers (Python str and bytes methods).      *)
(* A text is the sequence of its code points, a byte string the sequence   *)
(* of its bytes.  A call that may raise yields an outcome: Ok(v) when it   *)
(* returns v, Raised when it raises.                                       *)
(***************************************************************************)
Ok(v) == [raised |-> FALSE, value |-> v]
Raised == [raised |-> TRUE, value |-> <<>>]

\* `if track1:` is false for None and for an empty text or byte string
Truthy(x) == x # None /\ x # <<>>

\* str.upper() on ASCII text
Upper(s) == [i \in 1..Len(s) |-> IF s[i] \in 97..122 THEN s[i] - 32 ELSE s[i]]

\* str.encode('ascii'): UnicodeEncodeError for a code point above 127
AsciiEncode(s) ==
    IF \E i \in 1..Len(s) : s[i] > 127 THEN Raised
    ELSE Ok([i \in 1..Len(s) |-> s[i]])

\* U+FFFD, what errors='replace' puts for an undecodable byte
ReplacementChar == 65533

\* bytes.decode('ascii', errors=...)
AsciiDecode(b, errors) ==
    IF errors = "strict" /\ \E i \in 1..Len(b) : b[i] > 127 THEN Raised
    ELSE Ok([i \in 1..Len(b) |-> IF b[i] > 127 THEN ReplacementChar ELSE b[i]])

\* bytes.hex(): two lower-case hexadecimal digits per byte
HexDigit(d) == IF d < 10 THEN 48 + d ELSE 87 + d
Hex(b) ==
    [i \in 1..(2 * Len(b)) |->
        IF i % 2 = 1 THEN HexDigit(b[(i + 1) \div 2] \div 16)
        ELSE HexDigit(b[i \div 2] % 16)]

\* str.isspace() of one character
IsSpace(c) == c \in {9, 10, 11, 12, 13, 28, 29, 30, 31, 32, 133, 160}

\* str.strip()
RECURSIVE LStrip(_)
LStrip(s) == IF s # <<>> /\ IsSpace(Head(s)) THEN LStrip(Tail(s)) ELSE s
RECURSIVE RStrip(_)
RStrip(s) ==
    IF s # <<>> /\ IsSpace(s[Len(s)]) THEN RStrip(SubSeq(s, 1, Len(s) - 1))
    ELSE s
Strip(s) == RStrip(LStrip(s))

\* response[a:b] with 0 <= a <= b <= len(response)
Slice(s, a, b) == SubSeq(s, a + 1, b)

\* TrackSpec.TRACK_n['max_chars'] of constants.py (ISO 7811 capacities)
MaxChars(n) == CASE n = 1 -> 79 [] n = 2 -> 40 [] n = 3 -> 107

\* TRACK2_CHARSET and TRACK3_CHARSET: '0123456789:;<=>?'
NumericCharset == 48..63
\* '?;', the format characters without '%'
FormatChars_NoPercent == {63, 59}
\* '%?;'
FormatChars == {37, 63, 59}

DataFormats == {"ISO", "RAW"}

TrackData(n, data, raw_data, is_valid, format, error_message) ==
    [track_number |-> n, data |-> data, raw_data |-> raw_data,
     is_valid |-> is_valid, format |-> format,
     error_message |-> error_message]

(***************************************************************************)
(* TrackParser: the decoder                                                *)
(***************************************************************************)
\* a cleaner that does not trim: line 177 without strip()
clean_track_data_NoStrip(data, track_num) ==
    LET printable == SelectSeq(data, LAMBDA c : c >= 32 \/ c = 9)
    IN  SelectSeq(printable, LAMBDA c : c # ESC)

\* _clean_track_data
clean_track_data(data, track_num) ==
    LET printable == SelectSeq(data, LAMBDA c : c >= 32 \/ c = 9)
        cleaned == SelectSeq(printable, LAMBDA c : c # ESC)
    IN  Strip(cleaned)

\* a validator whose track 1 accepts all printable ASCII, 32..126
validate_track_data_Printable(data, track_num) ==
    IF data = <<>> THEN FALSE
    ELSE IF track_num \notin 1..3 THEN FALSE
    ELSE IF Len(data) > MaxChars(track_num) THEN FALSE
    ELSE IF fmt = "ISO"
         THEN IF track_num = 1
              THEN \A i \in 1..Len(data) : 32 <= data[i] /\ data[i] <= 126
              ELSE \A i \in 1..Len(data) :
                      data[i] \in NumericCharset \/ data[i] \in FormatChars
    ELSE TRUE

\* a validator without the length check of lines 203-205
validate_track_data_NoLength(data, track_num) ==
    IF data = <<>> THEN FALSE
    ELSE IF track_num \notin 1..3 THEN FALSE
    ELSE IF fmt = "ISO"
         THEN IF track_num = 1
              THEN \A i \in 1..Len(data) : 32 <= data[i] /\ data[i] <= 95
              ELSE \A i \in 1..Len(data) :
                      data[i] \in NumericCharset \/ data[i] \in FormatChars
    ELSE TRUE

\* _validate_track_data
validate_track_data(data, track_num) ==
    IF data = <<>> THEN FALSE
    ELSE IF track_num \notin 1..3 THEN FALSE
    ELSE IF Len(data) > MaxChars(track_num) THEN FALSE
    ELSE IF fmt = "ISO"
         THEN IF track_num = 1
              THEN \A i \in 1..Len(data) : 32 <= data[i] /\ data[i] <= 95
              ELSE \A i \in 1..Len(data) :
                      data[i] \in NumericCharset \/ data[i] \in FormatChars
    ELSE TRUE

\* lines 100-120: the segment of track_num in response, as <<a, b>> with
\* raw_data = response[a:b]; <<-1, -1>> without start marker
track_segment(response, track_num) ==
    LET start_idx == Find(response, <<ESC, track_num>>, 0)
        data_start == start_idx + 2
        fs_idx == Find(response, <<FS>>, data_start)
        next_track == Find(response, <<ESC, track_num + 1>>, data_start)
        status_marker == Find(response, <<ESC, StatusOk>>, data_start)
        end_idx == IF fs_idx # -1 THEN fs_idx
                   ELSE IF next_track # -1 THEN next_track
                   ELSE IF status_marker # -1 THEN status_marker
                   ELSE Len(response)
    IN  IF start_idx = -1 THEN <<-1, -1>> ELSE <<data_start, end_idx>>

\* lines 132-155: the text branch, with the given error handling of decode;
\* guarded: an exception inside is caught and gives an invalid TrackData
decode_text(raw_data, track_num, errors, guarded) ==
    LET d == AsciiDecode(raw_data, errors)
        decoded == clean_track_data(d.value, track_num)
        is_valid == validate_track_data(decoded, track_num)
    IN  IF d.raised
        THEN IF guarded
             THEN Ok(<<TrackData(track_num, <<>>, raw_data, FALSE, fmt,
                                 "exception")>>)
             ELSE Raised
        ELSE Ok(<<TrackData(track_num, decoded, raw_data, is_valid, fmt,
                            IF is_valid THEN "None"
                            ELSE "Invalid characters in track data")>>)

\* a variant of _extract_track that decodes strictly and catches nothing
extract_track_Unguarded(response, track_num, raw) ==
    LET seg == track_segment(response, track_num)
        raw_data == Slice(response, seg[1], seg[2])
    IN  IF seg[1] = -1 THEN Ok(<<>>)
        ELSE IF raw
        THEN Ok(<<TrackData(track_num, Hex(raw_data), raw_data,
                            Len(raw_data) > 0, "RAW", "None")>>)
        ELSE decode_text(raw_data, track_num, "strict", FALSE)

\* _extract_track: the outcome of the call; its value is <<>> for None and
\* <<TrackData>> otherwise
extract_track(response, track_num, raw) ==
    LET seg == track_segment(response, track_num)
        raw_data == Slice(response, seg[1], seg[2])
    IN  IF seg[1] = -1 THEN Ok(<<>>)
        ELSE IF raw
        THEN Ok(<<TrackData(track_num, Hex(raw_data), raw_data,
                            Len(raw_data) > 0, "RAW", "None")>>)
        ELSE decode_text(raw_data, track_num, "replace", TRUE)

\* a loop that appends only tracks holding data (`if track_data.raw_data:`)
parse_tracks_SkipEmpty(response, raw) ==
    LET t1 == extract_track(response, 1, raw)
        t2 == extract_track(response, 2, raw)
        t3 == extract_track(response, 3, raw)
        Kept(v) == SelectSeq(v, LAMBDA td : td.raw_data # <<>>)
    IN  IF t1.raised \/ t2.raised \/ t3.raised THEN Raised
        ELSE Ok(Kept(t1.value) \o Kept(t2.value) \o Kept(t3.value))

\* the loop `for track_num in [1, 2, 3]` of both parse methods
parse_tracks(response, raw) ==
    LET t1 == extract_track(response, 1, raw)
        t2 == extract_track(response, 2, raw)
        t3 == extract_track(response, 3, raw)
    IN  IF t1.raised \/ t2.raised \/ t3.raised THEN Raised
        ELSE Ok(t1.value \o t2.value \o t3.value)

parse_iso_response(response) == parse_tracks(response, FALSE)
parse_raw_response(response) == parse_tracks(response, TRUE)

(***************************************************************************)
(* TrackParser: the encoder                                                *)
(***************************************************************************)
\* the frame around the three encoded track payloads
write_frame(p1, p2, p3) ==
    <<ESC, 115>> \o <<ESC, 1>> \o p1 \o <<FS>> \o <<ESC, 2>> \o p2 \o <<FS>>
                 \o <<ESC, 3>> \o p3 \o <<FS>> \o <<63, FS>>

\* a variant of build_iso_write_data that does not upper-case track 1
build_iso_write_data_NoUpper(track1, track2, track3) ==
    LET p1 == IF Truthy(track1) THEN AsciiEncode(track1) ELSE Ok(<<>>)
        p2 == IF Truthy(track2) THEN AsciiEncode(track2) ELSE Ok(<<>>)
        p3 == IF Truthy(track3) THEN AsciiEncode(track3) ELSE Ok(<<>>)
    IN  IF p1.raised \/ p2.raised \/ p3.raised THEN Raised
        ELSE Ok(write_frame(p1.value, p2.value, p3.value))

\* an encoder that upper-cases track 1 only while the parser's format is ISO
build_iso_write_data_ByFormat(track1, track2, track3) ==
    IF fmt = "ISO" THEN build_iso_write_data_NoUpper(Upper(track1), track2, track3)
    ELSE build_iso_write_data_NoUpper(track1, track2, track3)

build_iso_write_data(track1, track2, track3) ==
    LET p1 == IF Truthy(track1) THEN AsciiEncode(Upper(track1)) ELSE Ok(<<>>)
        p2 == IF Truthy(track2) THEN AsciiEncode(track2) ELSE Ok(<<>>)
        p3 == IF Truthy(track3) THEN AsciiEncode(track3) ELSE Ok(<<>>)
    IN  IF p1.raised \/ p2.raised \/ p3.raised THEN Raised
        ELSE Ok(write_frame(p1.value, p2.value, p3.value))

build_raw_write_data(track1, track2, track3) ==
    LET p1 == IF Truthy(track1) THEN track1 ELSE <<>>
        p2 == IF Truthy(track2) THEN track2 ELSE <<>>
        p3 == IF Truthy(track3) THEN track3 ELSE <<>>
    IN  Ok(write_frame(p1, p2, p3))

(***************************************************************************)
(* The codec as steps: arguments -> frame -> decoded tracks                *)
(***************************************************************************)
\* the encoder has returned or raised
Encoded(out) ==
    /\ frame' = out.value
    /\ raised' = out.raised
    /\ stage' = "encoded"
    /\ UNCHANGED <<fmt, track, mode, tracks, validatorVars>>
    /\ UNCHANGED <<devVars, window, th, panelVars>>

\* build_iso_write_data is called on the arguments in `track`
BuildIso ==
    /\ stage = "input"
    /\ mode = "ISO"
    /\ Encoded(build_iso_write_data(track[1], track[2], track[3]))

\* build_raw_write_data is called on the arguments in `track`
BuildRaw ==
    /\ stage = "input"
    /\ mode = "RAW"
    /\ Encoded(build_raw_write_data(track[1], track[2], track[3]))

\* the decoder has returned or raised
Decoded(out) ==
    /\ tracks' = out.value
    /\ raised' = out.raised
    /\ stage' = "decoded"
    /\ UNCHANGED <<fmt, track, mode, frame, validatorVars>>
    /\ UNCHANGED <<devVars, window, th, panelVars>>

\* parse_iso_response is called on the bytes in `frame`
ParseIso ==
    /\ stage = "encoded"
    /\ ~raised
    /\ mode = "ISO"
    /\ Decoded(parse_iso_response(frame))

\* parse_raw_response is called on the bytes in `frame`
ParseRaw ==
    /\ stage = "encoded"
    /\ ~raised
    /\ mode = "RAW"
    /\ Decoded(parse_raw_response(frame))

\* sequences over S of length at most n
BoundedSeq(S, n) == UNION {[1..k -> S] : k \in 0..n}

\* characters of the texts handed to the ISO encoder: ' ', '1', 'a'
TextChars == {32, 49, 97}
\* bytes of the tracks handed to the RAW encoder: 0x02, ESC, FS
RawBytes == {2, ESC, FS}
\* bytes of the responses handed to the decoder: 0x01, 0x02, 0x03, ESC, FS,
\* '0' and the non-ASCII byte 0xC8
ParseBytes == {1, 2, 3, ESC, FS, StatusOk, 200}

\* longest track segment of the responses made of a marker and a segment
MaxSegLen == 3
\* bytes of those segments: 0x01, tab, ' ', 'A', 0xC8, ESC
SegmentBytes == {1, 9, 32, 65, 200, ESC}

\* what may follow ESC 0x04 in a response: nothing, 'A', ESC '0', FS
AfterFourth == {<<>>, <<65>>, <<ESC, StatusOk>>, <<FS>>}

\* the responses handed to the decoder: every short byte string; a start
\* marker followed by a segment of control characters, whitespace and text;
\* a start marker followed by a segment one byte longer than max_chars; the
\* start marker of track 3, 'A' or nothing, ESC 0x04 and what follows it
ParseFrames ==
    BoundedSeq(ParseBytes, MaxRespLen)
        \cup {<<ESC, n>> \o seg :
                 n \in 1..3, seg \in BoundedSeq(SegmentBytes, MaxSegLen)}
        \cup {<<ESC, n>> \o [i \in 1..(MaxChars(n) + 1) |-> StatusOk] :
                 n \in 1..3}
        \cup {<<ESC, 3>> \o seg \o <<ESC, 4>> \o rest :
                 seg \in {<<>>, <<65>>}, rest \in AfterFourth}

TrackArgs(m) ==
    {None} \cup BoundedSeq(IF m = "ISO" THEN TextChars ELSE RawBytes,
                           MaxTrackLen)

\* encode, then decode what was encoded
InitCodec ==
    /\ InitDevice
    /\ InitPanel
    /\ InitValidator
    /\ fmt = "ISO"
    /\ mode \in DataFormats
    /\ track \in [1..3 -> TrackArgs(mode)]
    /\ frame = <<>>
    /\ tracks = <<>>
    /\ raised = FALSE
    /\ stage = "input"
NextCodec == BuildIso \/ BuildRaw \/ ParseIso \/ ParseRaw
SpecCodec == InitCodec /\ [][NextCodec]_vars

\* decode an arbitrary response
InitParse ==
    /\ InitDevice
    /\ InitPanel
    /\ InitValidator
    /\ fmt \in DataFormats
    /\ mode \in DataFormats
    /\ track = <<None, None, None>>
    /\ frame \in ParseFrames
    /\ tracks = <<>>
    /\ raised = FALSE
    /\ stage = "encoded"
NextParse == ParseIso \/ ParseRaw
SpecParse == InitParse /\ [][NextParse]_vars


(***************************************************************************)
(* Properties of the codec                                                 *)
(***************************************************************************)
\* a track argument that contributes data to the frame
Populated(n) == Truthy(track[n])

\* the text or bytes of track n that a round trip is to give back
Expected(n) == IF mode = "ISO" /\ n = 1 THEN Upper(track[n]) ELSE track[n]

\* a write payload whose populated tracks pass the track validator (ISO:
\* track 1 once upper-cased) or are non-empty byte strings (RAW)
ValidPayload ==
    \A n \in 1..3 :
        Populated(n) =>
            IF mode = "ISO" THEN validate_track_data(Expected(n), n)
            ELSE Len(track[n]) > 0

\* what decoding gave for track n: data in ISO mode, raw_data in RAW mode
DecodedAs(n, x) ==
    \E i \in 1..Len(tracks) :
        /\ tracks[i].track_number = n
        /\ IF mode = "ISO" THEN tracks[i].data = x
           ELSE tracks[i].raw_data = x

\* C2 (claim as stated): for every valid write payload and each mode,
\* decoding the encoded frame yields, for each populated track, exactly the
\* text/bytes that were encoded, ISO track 1 upper-cased.
C2_RoundTrip ==
    (stage = "decoded" /\ ~raised /\ ValidPayload) =>
        \A n \in 1..3 : Populated(n) => DecodedAs(n, Expected(n))

\* the payload p_n of track n in the frame, written out byte by byte
PayloadIs(n, p) ==
    IF ~Populated(n) THEN p = <<>>
    ELSE /\ Len(p) = Len(track[n])
         /\ \A i \in 1..Len(p) :
               p[i] = IF mode = "ISO" /\ n = 1 /\ track[n][i] \in 97..122
                      THEN track[n][i] - 32
                      ELSE track[n][i]

\* C3: the encoded write frame is ESC 's', ESC 0x01 p1 FS, ESC 0x02 p2 FS,
\* ESC 0x03 p3 FS, '?' FS in that order; a None or empty track contributes
\* an empty payload; in ISO mode p1 is the upper-cased track-1 text and
\* p2, p3 the texts unchanged; in RAW mode p1..p3 are the given bytes.
C3_WriteFrameGrammar ==
    (stage = "encoded" /\ ~raised) =>
        \E a, b, c \in 0..Len(frame) :
            /\ Len(frame) = 13 + a + b + c
            /\ PayloadIs(1, Slice(frame, 4, 4 + a))
            /\ PayloadIs(2, Slice(frame, 7 + a, 7 + a + b))
            /\ PayloadIs(3, Slice(frame, 10 + a + b, 10 + a + b + c))
            /\ Slice(frame, 0, 4) = <<ESC, 115, ESC, 1>>
            /\ Slice(frame, 4 + a, 7 + a) = <<FS, ESC, 2>>
            /\ Slice(frame, 7 + a + b, 10 + a + b) = <<FS, ESC, 3>>
            /\ Slice(frame, 10 + a + b + c, 13 + a + b + c) = <<FS, 63, FS>>

\* an ISO frame was built from a lower-case track 1, an empty track 2 and
\* an omitted track 3
C3_Witness ==
    /\ stage = "encoded"
    /\ mode = "ISO"
    /\ track = <<(<<97, 49>>), (<<>>), None>>
    /\ frame = <<ESC, 115, ESC, 1, 65, 49, FS, ESC, 2, FS, ESC, 3, FS, 63, FS>>

\* number of places where pat occurs in s
Occurrences(s, pat) ==
    Cardinality({i \in 0..(Len(s) - Len(pat)) : MatchAt(s, pat, i)})

\* C4 (claim as stated): whichever tracks are populated, the frame holds
\* each of the start markers ESC 0x01, ESC 0x02, ESC 0x03 exactly once and
\* exactly three FS bytes before the trailing '?' FS, and each populated
\* track's data immediately follows its own marker.
C4_ThreeMarkersThreeSeparators ==
    (stage = "encoded" /\ ~raised) =>
        /\ \A n \in 1..3 : Occurrences(frame, <<ESC, n>>) = 1
        /\ Slice(frame, Len(frame) - 2, Len(frame)) = <<63, FS>>
        /\ Occurrences(Slice(frame, 0, Len(frame) - 2), <<FS>>) = 3
        /\ \A n \in 1..3 :
              Populated(n) =>
                  MatchAt(frame, <<ESC, n>> \o Expected(n),
                          Find(frame, <<ESC, n>>, 0))

\* a call of a parse method has ended
ParseEnded == stage = "decoded"

\* C5: parse_iso_response and parse_raw_response never raise, whatever the
\* input bytes: they return a list (possibly empty) of TrackData, one at
\* most per track number, a malformed track at worst with is_valid false.
C5_ParseNeverRaises ==
    ParseEnded =>
        /\ ~raised
        /\ Len(tracks) <= 3
        /\ \A i \in 1..Len(tracks) :
              /\ tracks[i].track_number \in 1..3
              /\ tracks[i].is_valid \in BOOLEAN
              /\ \A j \in 1..Len(tracks) :
                    i < j => tracks[i].track_number < tracks[j].track_number

\* an ISO parse met a non-ASCII byte in a track and returned that track
\* marked invalid
C5_Witness ==
    /\ ParseEnded
    /\ mode = "ISO"
    /\ frame = <<ESC, 1, 200, FS>>
    /\ Len(tracks) = 1
    /\ tracks[1].data = <<ReplacementChar>>
    /\ ~tracks[1].is_valid


(***************************************************************************)
(* Properties of the transport, continued                                  *)
(***************************************************************************)
\* an end marker among bytes: ESC '0', ESC '1' or FS
HoldsEndMarker(b) ==
    \/ Contains(b, <<ESC, StatusOk>>)
    \/ Contains(b, <<ESC, StatusFail>>)
    \/ Contains(b, <<FS>>)

\* a receive has returned after its timeout had passed, and the bytes it
\* had accumulated hold no end marker
TimedOutWithoutMarker(t) ==
    /\ th[t].op \in Receives
    /\ Idle(t)
    /\ ~th[t].caught
    /\ th[t].elapsed > th[t].arg.timeout
    /\ ~HoldsEndMarker(th[t].result.data)

\* C11 (claim as stated): when the timeout elapses and the accumulated
\* buffer holds neither a status sentinel nor FS, receive returns Timeout
\* with an empty result, also when some non-sentinel bytes did arrive.
C11_TimeoutResultEmpty ==
    \A t \in Threads :
        TimedOutWithoutMarker(t) =>
            (~th[t].result.ok /\ th[t].result.data = <<>>)


\* a send whose payload is longer than the report size minus one
PayloadTooLong(t) ==
    /\ th[t].op \in {"send_command", "send_and_receive"}
    /\ Len(th[t].arg.payload) > HID_REPORT_SIZE - 1

\* C12 (claim as stated): every report written to the device is exactly
\* the report size, starts with the report ID 0x00 followed by the payload
\* and zero padding; a payload longer than the report size minus one is
\* rejected and nothing is written.
C12_ReportSizeAndRejection ==
    /\ lastReport # <<>> =>
          /\ Len(lastReport) = HID_REPORT_SIZE
          /\ lastReport[1] = 0
    /\ \A t \in Threads :
          PayloadTooLong(t) =>
              /\ th[t].writes = 0
              /\ Idle(t) => ~th[t].result.ok


\* thread t takes a step of its own (the tag is set by other threads too)
Moves(t) == [th'[t] EXCEPT !.tag = FALSE] # [th[t] EXCEPT !.tag = FALSE]

\* thread t begins a call of the method `name` in this step
Begins(t, name) ==
    /\ Idle(t)
    /\ Moves(t)
    /\ th'[t].op = name

\* thread t returns from its call in this step, or has begun and returned
Returns(t) == Moves(t) /\ th'[t].pc = "idle"

\* C13: connect() on an already connected transport fails with "Already
\* connected" and changes nothing: no second handle is opened, the handle
\* and the cached identity are kept, no notification is sent; two racing
\* connect calls included.
C13_AlreadyConnectedNoChange ==
    [][\A t \in Threads :
          (Begins(t, "connect") /\ connected) =>
              /\ Returns(t)
              /\ th'[t].result = Res(FALSE, <<>>, "Already connected")
              /\ UNCHANGED devVars]_vars

\* two connect calls raced: one connected, the other was refused, and one
\* handle and one notification exist
C13_Witness ==
    /\ connected
    /\ \E t, u \in Threads :
          /\ t # u
          /\ th[t].op = "connect" /\ Idle(t)
          /\ th[t].result.msg = "Connected successfully"
          /\ th[u].op = "connect" /\ Idle(u)
          /\ th[u].result.msg = "Already connected"
    /\ Cardinality({h \in 1..MaxHandles : hstate[h] # "none"}) = 1
    /\ notified = <<TRUE>>


\* disconnect() begun while not connected: "Not connected", nothing changes
DisconnectRefused(t) ==
    (Begins(t, "disconnect") /\ ~is_connected) =>
        /\ Returns(t)
        /\ th'[t].result = Res(FALSE, <<>>, "Not connected")
        /\ UNCHANGED devVars

\* thread t returns in this step from a disconnect() that found the
\* transport connected
DisconnectEnds(t) ==
    /\ th[t].op = "disconnect"
    /\ ~Idle(t)
    /\ Returns(t)

\* the handle is closed and the fields are cleared
DisconnectDone(t) ==
    /\ th'[t].result.ok
    /\ hstate'[device] = "closed"
    /\ ~connected'
    /\ device' = 0
    /\ device_info' = 0

\* close() raised: "Disconnect failed", handle and fields as they were
DisconnectFailed(t) ==
    /\ th'[t].result = Res(FALSE, <<>>, "Disconnect failed")
    /\ UNCHANGED <<device, connected, device_info, hstate, notified>>

\* C14 (amended): disconnect() fails with "Not connected" and leaves all
\* state unchanged when the transport is not connected; otherwise it calls
\* close(), and either the handle is closed and afterwards is_connected is
\* false and device_info is None, or close() raised and disconnect returns
\* "Disconnect failed" with the transport still connected and unchanged.
C14_DisconnectOutcomes ==
    [][\A t \in Threads :
          /\ DisconnectRefused(t)
          /\ DisconnectEnds(t) => (DisconnectDone(t) \/ DisconnectFailed(t))]_vars

\* a disconnect() failed in close(), a later one closed the handle
C14_Witness ==
    \E t, u \in Threads :
        /\ th[t].op = "disconnect" /\ Idle(t)
        /\ th[t].result.msg = "Disconnect failed"
        /\ th[u].op = "disconnect" /\ Idle(u)
        /\ th[u].result.msg = "Disconnected successfully"
        /\ ~is_connected
        /\ device_info = 0
        /\ \E h \in 1..MaxHandles : hstate[h] = "closed"

\* C14 (claim as stated): disconnect() fails with NotConnected and leaves
\* all state unchanged when no handle is open; otherwise it closes the
\* handle and afterwards is_connected is false and device_info is None.
C14_DisconnectClosesOrRefuses ==
    [][\A t \in Threads :
          /\ DisconnectRefused(t)
          /\ DisconnectEnds(t) => DisconnectDone(t)]_vars


\* the values seen by the listener alternate true, false, true, ...
Alternates == \A i \in 1..Len(notified) : notified[i] = (i % 2 = 1)

\* thread t returns in this step from a call of connect or disconnect
ConnectionCallEnds(t) ==
    /\ Returns(t)
    /\ th'[t].op \in {"connect", "disconnect"}

\* a successful connect delivers one true, a successful disconnect one
\* false, a failed call nothing; nothing else is delivered
NotifyMirrors ==
    /\ \A t \in Threads :
          ConnectionCallEnds(t) =>
              notified' = IF th'[t].result.ok
                          THEN Append(notified, th'[t].op = "connect")
                          ELSE notified
    /\ notified' # notified =>
          \E t \in Threads : ConnectionCallEnds(t) /\ th'[t].result.ok

C16_IdentityOfOpenedDevice ==
    /\ is_connected => device_info = hpath[device]
    /\ \A t \in Threads :
          (th[t].op = "connect" /\ Idle(t) /\ th[t].result.ok
              /\ th[t].arg.path # 0 /\ is_connected) =>
                  device_info = th[t].arg.path


OpenHandles == {h \in 1..MaxHandles : hstate[h] = "open"}

\* C17 (claim as stated): whenever connect() returns failure, no OS handle
\* opened by that call remains open, so across any sequence of connect and
\* disconnect calls at most one handle is open at a time.
C17_NoHandleLeftOpen ==
    /\ \A h \in OpenHandles : device = h
    /\ Cardinality(OpenHandles) <= 1


\* an exception has left the call of thread t and reached its caller
Propagated(t) == th[t].pc = "raised"

\* C18: every failure of connect, disconnect, send_command,
\* receive_response, send_and_receive and flush, an exception of the HID
\* layer during open, close, write or read included, is a returned failure
\* result; no exception reaches the caller.
C18_FailuresAreReturned ==
    \A t \in Threads :
        /\ ~Propagated(t)
        /\ th[t].caught => (Idle(t) /\ ~th[t].result.ok)

\* close() raised in a disconnect and read() raised in a receive, and both
\* calls have returned
C18_Witness ==
    \E t, u \in Threads :
        /\ th[t].op = "disconnect" /\ th[t].caught /\ Idle(t)
        /\ th[u].op \in Receives /\ th[u].caught /\ th[u].read /\ Idle(u)


Sends == {"send_command", "send_and_receive"}

\* a send or receive call of thread t has returned failure
FailedTransfer(t) ==
    /\ th[t].op \in Sends \cup Receives
    /\ Idle(t)
    /\ ~th[t].result.ok

\* why the failed call of thread t failed
Cause(t) ==
    IF th[t].writes = 0 /\ ~th[t].read /\ ~th[t].caught THEN "NotConnected"
    ELSE IF th[t].writes > 0 /\ th[t].mycmd = 0 THEN "WriteFailed"
    ELSE IF th[t].read /\ th[t].caught THEN "ReadError"
    ELSE IF th[t].read /\ th[t].elapsed > th[t].arg.timeout THEN "Timeout"
    ELSE "other"

\* C19 (claim as stated): the result of a failed send or receive lets the
\* caller tell apart NotConnected, WriteFailed, an OS read error and
\* Timeout; no two of these conditions produce the same returned value.
C19_FailuresDistinguishable ==
    \A t, u \in Threads :
        (FailedTransfer(t) /\ FailedTransfer(u) /\ Cause(t) # Cause(u)) =>
            th[t].result # th[u].result


\* positions of the receive half of send_and_receive
ReceiveHalf == {"r_check", "r_lock", "r_loop"}

MaxTextLen == 2

\* characters of the texts: tab, 0x1F, ' ', '%', '0', '?', 'A', '_', '`', 'a'
ValidatorChars == {9, 31, 32, 37, 48, 63, 65, 95, 96, 97}

\* n times the character c
Repeat(c, n) == [i \in 1..n |-> c]

\* lengths at and just above each track's max_chars
LimitLengths == UNION {{MaxChars(n), MaxChars(n) + 1} : n \in 1..3}

\* the texts: every short text, and for each character the texts of that
\* character at the length limits
ValidatorTexts ==
    BoundedSeq(ValidatorChars, MaxTextLen)
        \cup {Repeat(c, n) : c \in ValidatorChars, n \in LimitLengths}

\* track numbers handed to the validator, 0 and 4 being no track
ValidatorTracks == 0..4

\* set_format(format)
SetFormat(f) ==
    /\ stage = "input"
    /\ fmt # f
    /\ fmt' = f
    /\ UNCHANGED <<track, mode, frame, tracks, raised, stage, validatorVars>>
    /\ UNCHANGED <<devVars, window, th, panelVars>>

\* _validate_track_data(vtext, vtrack) is called
Validate ==
    /\ stage = "input"
    /\ valid' = validate_track_data(vtext, vtrack)
    /\ stage' = "validated"
    /\ UNCHANGED <<fmt, track, mode, frame, tracks, raised, vtext, vtrack>>
    /\ UNCHANGED <<devVars, window, th, panelVars>>

InitValidate ==
    /\ InitDevice
    /\ InitPanel
    /\ fmt = "ISO"
    /\ track = <<None, None, None>>
    /\ mode = "ISO"
    /\ frame = <<>>
    /\ tracks = <<>>
    /\ raised = FALSE
    /\ stage = "input"
    /\ vtext \in ValidatorTexts
    /\ vtrack \in ValidatorTracks
    /\ valid = FALSE
NextValidate == (\E f \in DataFormats : SetFormat(f)) \/ Validate
SpecValidate == InitValidate /\ [][NextValidate]_vars


(***************************************************************************)
(* Properties of the validator                                             *)
(***************************************************************************)
\* a call of _validate_track_data has returned
Validated == stage = "validated"

\* the text is non-empty and not longer than the max_chars of track n
WithinLimits(n) == vtext # <<>> /\ Len(vtext) <= MaxChars(n)

C22_EmptyLongOrNoTrack ==
    Validated =>
        /\ vtext = <<>> => ~valid
        /\ vtrack \notin 1..3 => ~valid
        /\ (vtrack \in 1..3 /\ Len(vtext) > MaxChars(vtrack)) => ~valid

\* a RAW text one character longer than the limit of track 2 was rejected
C22_Witness ==
    /\ Validated
    /\ fmt = "RAW"
    /\ vtrack = 2
    /\ vtext = Repeat(48, MaxChars(2) + 1)
    /\ ~valid

\* the digits 0-9, ':', ';', '<', '=', '>', '?' and '%'
NumericOrPercent == 48..63 \cup {37}

\* C23: in ISO mode validation of track 2 or track 3 is true exactly when
\* the text is non-empty, within the track's length limit, and every
\* character is a digit, ':', ';', '<', '=', '>', '?' or '%'.
C23_Tracks23Iso ==
    (Validated /\ fmt = "ISO" /\ vtrack \in {2, 3}) =>
        valid = (WithinLimits(vtrack)
                 /\ \A i \in 1..Len(vtext) : vtext[i] \in NumericOrPercent)

\* track 3 text "%0" was accepted
C23_Witness ==
    /\ Validated
    /\ fmt = "ISO"
    /\ vtrack = 3
    /\ vtext = <<37, 48>>
    /\ valid


\* the validator half of C24: with format RAW validation is true exactly
\* when the text is non-empty and within the track's length limit
RawValidationByLimits ==
    (Validated /\ fmt = "RAW" /\ vtrack \in 1..3) =>
        valid = WithinLimits(vtrack)

\* the decoder half of C24: a track decoded in RAW mode is invalid when its
\* segment is empty or longer than the track's max length
RawDecodingByLimits ==
    (ParseEnded /\ mode = "RAW") =>
        \A i \in 1..Len(tracks) :
            (Len(tracks[i].raw_data) = 0
                \/ Len(tracks[i].raw_data) > MaxChars(tracks[i].track_number))
            => ~tracks[i].is_valid

\* C24 (claim as stated): in RAW mode validity depends only on emptiness
\* and length: validation with format RAW is true iff the text is non-empty
\* and not longer than the track's max, and a track produced by RAW decoding
\* is marked is_valid = false when its segment is empty or longer than that
\* track's max length.
C24_RawValidity == RawValidationByLimits /\ RawDecodingByLimits


\* the start marker ESC n occurs in the buffer
MarkerIn(n) == Contains(frame, <<ESC, n>>)

\* the entries of the result for track n
EntriesOf(n) == {i \in 1..Len(tracks) : tracks[i].track_number = n}

\* C25: decoding returns at most one TrackData per track number, in
\* ascending track order; a track is in the result if and only if its start
\* marker ESC n occurs in the buffer, an absent marker being an omission and
\* not an error; a marker followed by an empty segment gives an entry with
\* is_valid = false.
C25_OneEntryPerMarker ==
    ParseEnded =>
        /\ ~raised
        /\ \A i \in 1..Len(tracks) : tracks[i].track_number \in 1..3
        /\ \A i, j \in 1..Len(tracks) :
              i < j => tracks[i].track_number < tracks[j].track_number
        /\ \A n \in 1..3 :
              Cardinality(EntriesOf(n)) = IF MarkerIn(n) THEN 1 ELSE 0
        /\ \A i \in 1..Len(tracks) :
              tracks[i].raw_data = <<>> => ~tracks[i].is_valid

\* markers of tracks 3 and 1 occur, in that order, and that of track 2 does
\* not: the result holds track 1, then track 3 with an empty segment
C25_Witness ==
    /\ ParseEnded
    /\ frame = <<ESC, 3, FS, ESC, 1>>
    /\ Len(tracks) = 2
    /\ tracks[1].track_number = 1
    /\ tracks[2].track_number = 3
    /\ ~tracks[2].is_valid


\* 0-based index just after the first start marker of track n
SegmentStart(n) == Find(frame, <<ESC, n>>, 0) + 2

\* 0-based indices, from a on, of the delimiters that may end the segment
\* of track n: an FS byte, the next track's start marker, ESC '0', the end
DelimitersFrom(n, a) ==
    {i \in a..Len(frame) :
        \/ i = Len(frame)
        \/ MatchAt(frame, <<FS>>, i)
        \/ n < 3 /\ MatchAt(frame, <<ESC, n + 1>>, i)
        \/ MatchAt(frame, <<ESC, StatusOk>>, i)}

\* the nearest of them
NearestDelimiter(n, a) ==
    CHOOSE i \in DelimitersFrom(n, a) : \A j \in DelimitersFrom(n, a) : i <= j

\* C26 (claim as stated): a decoded track segment ends at the nearest
\* delimiter after its start marker, whichever comes first among an FS byte,
\* the next track's start marker, ESC '0' and the end of the buffer; hence
\* the raw_data of track n never holds the start marker of another track.
C26_SegmentEndsAtNearestDelimiter ==
    ParseEnded =>
        \A i \in 1..Len(tracks) :
            LET n == tracks[i].track_number
                a == SegmentStart(n)
            IN  /\ tracks[i].raw_data = Slice(frame, a, NearestDelimiter(n, a))
                /\ \A m \in 1..3 \ {n} :
                      ~Contains(tracks[i].raw_data, <<ESC, m>>)


\* what decode('ascii', errors='replace') makes of one byte
Replaced(b) == IF b > 127 THEN ReplacementChar ELSE b

\* 1-based positions of raw_data whose character is not a control
\* character, tab excepted
Visible(r) == {i \in 1..Len(r) : Replaced(r[i]) >= 32 \/ Replaced(r[i]) = 9}

\* the visible positions from the first to the last one that is not
\* whitespace
Core(r) ==
    LET inked == {i \in Visible(r) : Replaced(r[i]) \notin {9, 32}}
    IN  {i \in Visible(r) : \E j, k \in inked : j <= i /\ i <= k}

\* the k-th position of a set of positions, in increasing order
Nth(S, k) == CHOOSE i \in S : Cardinality({j \in S : j <= i}) = k

\* C27: in text mode the decoded track text contains no character below 32
\* other than tab, no escape character, no leading or trailing whitespace,
\* and otherwise keeps the characters of the segment in their order, an
\* undecodable byte being replaced by U+FFFD.
C27_CleanedText ==
    (ParseEnded /\ mode = "ISO") =>
        \A i \in 1..Len(tracks) :
            LET d == tracks[i].data
                r == tracks[i].raw_data
            IN  /\ \A k \in 1..Len(d) : (d[k] >= 32 \/ d[k] = 9) /\ d[k] # ESC
                /\ d # <<>> => ~IsSpace(d[1]) /\ ~IsSpace(d[Len(d)])
                /\ Len(d) = Cardinality(Core(r))
                /\ \A k \in 1..Len(d) : d[k] = Replaced(r[Nth(Core(r), k)])

\* a segment with a leading blank, a control character and an undecodable
\* byte has been decoded to the replacement character alone
C27_Witness ==
    /\ ParseEnded
    /\ mode = "ISO"
    /\ \E i \in 1..Len(tracks) :
          /\ tracks[i].raw_data = <<32, 1, 200>>
          /\ tracks[i].data = <<ReplacementChar>>


(***************************************************************************)
(* WritePanel (src/src/ui/write_panel.py): the write button, the worker    *)
(* thread running do_write and the callbacks it hands to the main loop.    *)
(***************************************************************************)
\* what a track entry may give: None (track unchecked), "", "1A", "1a", "G"
EntryTexts == {None, <<>>, <<49, 65>>, <<49, 97>>, <<71>>}

\* CommandResult values write_iso, write_raw and compare_card return
CommandResults ==
    {[success |-> TRUE, message |-> "ok"],
     [success |-> FALSE, message |-> "failed"]}

\* the CommandResult built at lines 268-272
InvalidHex == [success |-> FALSE, message |-> "Invalid hex data"]

\* bytes.fromhex(text): pairs of hexadecimal digits, ValueError otherwise
IsHexDigit(c) == c \in 48..57 \/ c \in 65..70 \/ c \in 97..102
HexValue(c) ==
    IF c \in 48..57 THEN c - 48 ELSE IF c \in 65..70 THEN c - 55 ELSE c - 87
FromHex(text) ==
    IF Len(text) % 2 = 1 \/ \E i \in 1..Len(text) : ~IsHexDigit(text[i])
    THEN Raised
    ELSE Ok([i \in 1..(Len(text) \div 2) |->
                16 * HexValue(text[2 * i - 1]) + HexValue(text[2 * i])])

\* bytes.fromhex(track) if track else None
HexArg(text) == IF Truthy(text) THEN FromHex(text) ELSE Ok(None)

\* one call on self.commands: ret is <<>> until it returns
CommandCall(fn, args) == [fn |-> fn, args |-> args, ret |-> <<>>]

\* the last call has returned r
Returned(r) == [calls EXCEPT ![Len(calls)].ret = <<r>>]

\* GLib.idle_add(fn, *args)
IdleAdd(fn, args) == Append(idle, [fn |-> fn, args |-> args])

\* a click handler that starts the worker and leaves the button sensitive
WriteClicked_KeepsButton(track1, track2, track3, format_id, verify) ==
    /\ ~panel.writing
    /\ IF ~(Truthy(track1) \/ Truthy(track2) \/ Truthy(track3))
       THEN /\ panel' = [panel EXCEPT
                            !.toast = "Please enter data for at least one track"]
            /\ UNCHANGED <<worker, calls, completions>>
       ELSE /\ panel' = [panel EXCEPT !.status = "Waiting for card swipe..."]
            /\ worker' = [pc |-> "start",
                          track |-> <<track1, track2, track3>>,
                          format_id |-> format_id, verify |-> verify,
                          result |-> <<>>, verify_result |-> <<>>]
            /\ calls' = <<>>
            /\ completions' = <<>>
    /\ UNCHANGED idle
    /\ UNCHANGED <<devVars, window, th, parserVars>>

\* _on_write_clicked, lines 240-285 up to thread.start()
WriteClicked(track1, track2, track3, format_id, verify) ==
    /\ ~panel.writing
    /\ IF ~(Truthy(track1) \/ Truthy(track2) \/ Truthy(track3))
       THEN /\ panel' = [panel EXCEPT
                            !.toast = "Please enter data for at least one track"]
            /\ UNCHANGED <<worker, calls, completions>>
       ELSE /\ panel' = [panel EXCEPT !.writing = TRUE,
                                      !.status = "Waiting for card swipe..."]
            /\ worker' = [pc |-> "start",
                          track |-> <<track1, track2, track3>>,
                          format_id |-> format_id, verify |-> verify,
                          result |-> <<>>, verify_result |-> <<>>]
            /\ calls' = <<>>
            /\ completions' = <<>>
    /\ UNCHANGED idle
    /\ UNCHANGED <<devVars, window, th, parserVars>>

\* do_write, lines 258-274: the worker converts and calls the write command
DoWrite ==
    /\ worker.pc = "start"
    /\ LET t == [n \in 1..3 |-> HexArg(worker.track[n])]
       IN  IF worker.format_id = "raw"
           THEN IF \E n \in 1..3 : t[n].raised
                THEN /\ worker' = [worker EXCEPT !.pc = "written",
                                                 !.result = <<InvalidHex>>]
                     /\ UNCHANGED calls
                ELSE /\ calls' = Append(calls,
                            CommandCall("write_raw",
                                        [n \in 1..3 |-> t[n].value]))
                     /\ worker' = [worker EXCEPT !.pc = "write"]
           ELSE /\ calls' = Append(calls,
                                   CommandCall("write_iso", worker.track))
                /\ worker' = [worker EXCEPT !.pc = "write"]
    /\ UNCHANGED <<panel, idle, completions>>
    /\ UNCHANGED <<devVars, window, th, parserVars>>

\* write_iso or write_raw returns its CommandResult
WriteReturn(r) ==
    /\ worker.pc = "write"
    /\ calls' = Returned(r)
    /\ worker' = [worker EXCEPT !.pc = "written", !.result = <<r>>]
    /\ UNCHANGED <<panel, idle, completions>>
    /\ UNCHANGED <<devVars, window, th, parserVars>>

\* a worker that verifies whenever verification was requested
DoVerify_AfterFailure ==
    /\ worker.pc = "written"
    /\ IF worker.verify
       THEN /\ idle' = IdleAdd("set_text", <<"Verifying... swipe card again">>)
            /\ calls' = Append(calls,
                               CommandCall("compare_card", worker.track))
            /\ worker' = [worker EXCEPT !.pc = "compare"]
       ELSE /\ idle' = IdleAdd("_on_write_complete", <<worker.result, <<>>>>)
            /\ worker' = [worker EXCEPT !.pc = "done"]
            /\ UNCHANGED calls
    /\ UNCHANGED <<panel, completions>>
    /\ UNCHANGED <<devVars, window, th, parserVars>>

\* do_write, lines 276-282: verify if requested
DoVerify ==
    /\ worker.pc = "written"
    /\ IF worker.result[1].success /\ worker.verify
       THEN /\ idle' = IdleAdd("set_text", <<"Verifying... swipe card again">>)
            /\ calls' = Append(calls,
                               CommandCall("compare_card", worker.track))
            /\ worker' = [worker EXCEPT !.pc = "compare"]
       ELSE /\ idle' = IdleAdd("_on_write_complete", <<worker.result, <<>>>>)
            /\ worker' = [worker EXCEPT !.pc = "done"]
            /\ UNCHANGED calls
    /\ UNCHANGED <<panel, completions>>
    /\ UNCHANGED <<devVars, window, th, parserVars>>

\* compare_card returns; do_write, line 280
CompareReturn(r) ==
    /\ worker.pc = "compare"
    /\ calls' = Returned(r)
    /\ idle' = IdleAdd("_on_write_complete", <<worker.result, <<r>>>>)
    /\ worker' = [worker EXCEPT !.pc = "done", !.verify_result = <<r>>]
    /\ UNCHANGED <<panel, completions>>
    /\ UNCHANGED <<devVars, window, th, parserVars>>

\* _on_write_complete, lines 287-304: the label it leaves
CompleteStatus(write_result, verify_result) ==
    IF write_result[1].success
    THEN IF verify_result # <<>>
         THEN IF verify_result[1].success
              THEN "Write and verify successful"
              ELSE "Verify failed"
         ELSE "Card written successfully"
    ELSE "Write failed"

\* the main loop runs the oldest idle callback
IdleDispatch ==
    /\ idle # <<>>
    /\ idle' = Tail(idle)
    /\ IF Head(idle).fn = "_on_write_complete"
       THEN /\ panel' = [panel EXCEPT
                            !.writing = FALSE,
                            !.status = CompleteStatus(Head(idle).args[1],
                                                      Head(idle).args[2]),
                            !.toast = CompleteStatus(Head(idle).args[1],
                                                     Head(idle).args[2])]
            /\ completions' = Append(completions, Head(idle).args)
       ELSE /\ panel' = [panel EXCEPT !.status = Head(idle).args[1]]
            /\ UNCHANGED completions
    /\ UNCHANGED <<worker, calls>>
    /\ UNCHANGED <<devVars, window, th, parserVars>>

InitWrite == InitDevice /\ InitParser /\ InitPanel
NextWrite ==
    \/ \E t1, t2, t3 \in EntryTexts, f \in {"iso", "raw"}, v \in BOOLEAN :
          WriteClicked(t1, t2, t3, f, v)
    \/ DoWrite
    \/ \E r \in CommandResults : WriteReturn(r)
    \/ DoVerify
    \/ \E r \in CommandResults : CompareReturn(r)
    \/ IdleDispatch
SpecWrite == InitWrite /\ [][NextWrite]_vars

\* positions in calls of the calls of a set of commands
CallsOf(fns) == {i \in 1..Len(calls) : calls[i].fn \in fns}

\* the completion callbacks the current worker has posted, run or not
Posted ==
    completions \o
    [i \in 1..Len(SelectSeq(idle, LAMBDA cb : cb.fn = "_on_write_complete"))
        |-> SelectSeq(idle, LAMBDA cb : cb.fn = "_on_write_complete")[i].args]

\* C28: the worker of the write panel starts compare only after write has
\* returned, only when write succeeded and verification was requested, never
\* after a failed write, and posts exactly one completion callback, which
\* carries the write result and, when compare was run, the compare result.
C28_VerifyAfterWrite ==
    /\ \A i \in CallsOf({"compare_card"}) :
          /\ worker.verify
          /\ \E j \in CallsOf({"write_iso", "write_raw"}) :
                j < i /\ calls[j].ret # <<>> /\ calls[j].ret[1].success
    /\ Cardinality(CallsOf({"compare_card"})) <= 1
    /\ (worker.result # <<>> /\ ~worker.result[1].success) =>
          CallsOf({"compare_card"}) = {}
    /\ Len(Posted) = (IF worker.pc = "done" THEN 1 ELSE 0)
    /\ worker.pc = "done" =>
          /\ Posted[1][1] = worker.result
          /\ \A j \in CallsOf({"write_iso", "write_raw"}) :
                Posted[1][1] = calls[j].ret
          /\ IF CallsOf({"compare_card"}) = {}
             THEN Posted[1][2] = <<>>
             ELSE \A i \in CallsOf({"compare_card"}) :
                     Posted[1][2] # <<>> /\ Posted[1][2] = calls[i].ret

\* a write succeeded, the compare that followed failed, and the completion
\* callback has run with both results
C28_Witness ==
    /\ worker.pc = "done"
    /\ Len(calls) = 2
    /\ calls[1].fn = "write_raw" /\ calls[1].ret[1].success
    /\ calls[2].fn = "compare_card" /\ ~calls[2].ret[1].success
    /\ completions = <<<<calls[1].ret, calls[2].ret>>>>
    /\ panel.status = "Verify failed"


\* the calls that change the connection: connect() and disconnect()
ConnectionCalls(t, paths) ==
    \/ \E p \in paths : ConnectEnter(t, p)
    \/ ConnectOpen(t)
    \/ ConnectFinish(t)
    \/ DisconnectEnter(t)
    \/ DisconnectClose(t)

\* the command calls: send_command, receive_response, send_and_receive, flush
CommandCalls(t, payloads, timeouts, streams) ==
    \/ \E pl \in payloads : SendCheck(t, "send_command", pl, 0)
    \/ \E pl \in payloads, tmo \in timeouts :
          SendCheck(t, "send_and_receive", pl, tmo)
    \/ SendLock(t)
    \/ SendWrite(t, streams)
    \/ \E tmo \in timeouts : RecvCall(t, tmo)
    \/ RecvAfterSend(t)
    \/ RecvLock(t)
    \/ RecvTimeout(t)
    \/ RecvRead(t)
    \/ FlushCheck(t)
    \/ FlushLock(t)
    \/ FlushRead(t)

\* thread 1 connects and disconnects while thread 2 issues the commands
NextCommands ==
    \/ ConnectionCalls(1, {0})
    \/ CommandCalls(2, {ShortPayload}, ConcTimeouts, ConcStreams)
SpecCommands == Init /\ [][NextCommands]_vars

\* thread t takes a step of a call of flush() in this step
FlushStep(t) == Moves(t) /\ th'[t].op = "flush"

\* C29: flush() never fails the caller and is purely advisory: no exception
\* leaves it, even when the device read raises; called when not connected
\* it returns at once without a device read; and no step of it changes the
\* connection state, the handle or the cached identity.
C29_FlushAdvisory ==
    [][\A t \in Threads :
          FlushStep(t) =>
              /\ th'[t].pc # "raised"
              /\ UNCHANGED <<device, connected, device_info, hstate, hpath>>
              /\ (Begins(t, "flush") /\ ~is_connected) =>
                    /\ th'[t].pc = "idle"
                    /\ ~th'[t].read
                    /\ UNCHANGED devq]_vars

\* the read of a flush() raised on a connected transport, the call has
\* returned and the transport is still connected with its identity
C29_Witness ==
    \E t \in Threads :
        /\ th[t].op = "flush" /\ Idle(t)
        /\ th[t].caught /\ th[t].read
        /\ connected /\ device # 0 /\ device_info # 0

\* thread t takes a step of a command call in this step
CommandStep(t) == Moves(t) /\ th'[t].op \in Commands

\* C30: connect() and disconnect() are the only transitions of the
\* connection state: no step of send_command, receive_response,
\* send_and_receive or flush changes is_connected, the handle or
\* device_info, whether the call succeeds, times out or hits an I/O error.
C30_OnlyConnectAndDisconnect ==
    [][\A t \in Threads :
          CommandStep(t) =>
              UNCHANGED <<device, connected, device_info, hstate, hpath>>]_vars

\* on a connected transport with an open handle a send_and_receive has
\* written its command and hit an I/O error in its read; it has returned
\* failure and the transport is still connected
C30_Witness ==
    \E t \in Threads :
        /\ th[t].op = "send_and_receive" /\ Idle(t)
        /\ th[t].writes = 1 /\ th[t].read /\ th[t].caught
        /\ ~th[t].result.ok
        /\ connected /\ device # 0 /\ device_info # 0
        /\ hstate[device] = "open"


(***************************************************************************)
(* The encoder called again and again on one TrackParser, between          *)
(* set_format calls and decodes.                                           *)
(***************************************************************************)
\* a track argument of these calls: None, '' / b'', 'a' / b'a'
EncodeArgs == {None, <<>>, <<97>>}

\* the caller makes its next call, with mode m and the arguments t; frame and
\* tracks still hold what the last calls returned
NextCall(m, t) ==
    /\ stage \in {"encoded", "decoded"}
    /\ stage' = "input"
    /\ mode' = m
    /\ track' = t
    /\ raised' = FALSE
    /\ UNCHANGED <<fmt, frame, tracks, validatorVars>>
    /\ UNCHANGED <<devVars, window, th, panelVars>>

InitEncode ==
    /\ InitDevice
    /\ InitPanel
    /\ InitValidator
    /\ fmt = "ISO"
    /\ mode \in DataFormats
    /\ track \in [1..3 -> EncodeArgs]
    /\ frame = <<>>
    /\ tracks = <<>>
    /\ raised = FALSE
    /\ stage = "input"
NextEncode ==
    \/ \E f \in DataFormats : SetFormat(f)
    \/ BuildIso
    \/ BuildRaw
    \/ ParseIso
    \/ ParseRaw
    \/ \E m \in DataFormats, t \in [1..3 -> EncodeArgs] : NextCall(m, t)
SpecEncode == InitEncode /\ [][NextEncode]_vars

\* the payload of track n for the argument t in mode m: nothing for None
\* and for the empty argument, else the argument, upper-cased for track 1
\* of the ISO encoder
PayloadOf(m, n, t) ==
    IF t = None \/ t = <<>> THEN <<>>
    ELSE IF m = "ISO" /\ n = 1 THEN Upper(t)
    ELSE t

\* C31: encoding is deterministic and stateless: the bytes built by
\* build_iso_write_data and build_raw_write_data are a function of the three
\* track arguments alone, an omitted (None) track and an empty one encoding
\* alike, whatever the parser's format and whatever was encoded, decoded or
\* set before.
C31_EncodingStateless ==
    stage = "encoded" =>
        /\ ~raised
        /\ frame = write_frame(PayloadOf(mode, 1, track[1]),
                               PayloadOf(mode, 2, track[2]),
                               PayloadOf(mode, 3, track[3]))

\* after set_format(RAW) and an earlier decode that returned tracks, the ISO
\* encoder has encoded ('a', None, '')
C31_Witness ==
    /\ stage = "encoded"
    /\ fmt = "RAW"
    /\ tracks # <<>>
    /\ mode = "ISO"
    /\ track = <<<<97>>, None, <<>>>>
    /\ frame = write_frame(<<65>>, <<>>, <<>>)


\* 0-based index of the first occurrence of pat at or after a, or -1
FirstFrom(pat, a) == Find(frame, pat, a)

\* the end of the segment of track n that starts at a, by search priority:
\* the first FS; else the first start marker of the next track, for tracks
\* 1 and 2; else the first ESC '0'; else the end of the buffer
PriorityEnd(n, a) ==
    IF FirstFrom(<<FS>>, a) # -1 THEN FirstFrom(<<FS>>, a)
    ELSE IF n < 3 /\ FirstFrom(<<ESC, n + 1>>, a) # -1
         THEN FirstFrom(<<ESC, n + 1>>, a)
    ELSE IF FirstFrom(<<ESC, StatusOk>>, a) # -1
         THEN FirstFrom(<<ESC, StatusOk>>, a)
    ELSE Len(frame)

\* C32 (claim as stated): the segment of track n ends at the first FS after
\* its start marker if there is one; otherwise at the first start marker of
\* the next track (tracks 1 and 2 only, track 3 has no next track);
\* otherwise at the first ESC '0'; otherwise at the end of the buffer.
C32_SearchPriority ==
    ParseEnded =>
        \A i \in 1..Len(tracks) :
            tracks[i].raw_data =
                Slice(frame, SegmentStart(tracks[i].track_number),
                      PriorityEnd(tracks[i].track_number,
                                  SegmentStart(tracks[i].track_number)))


\* in this step thread t, inside a send or receive, reaches the handle:
\* the write of send_command or one read of the receive loop
ReachesHandle(t) ==
    /\ Moves(t)
    /\ th[t].op \in Sends \cup Receives
    /\ \/ At(t, "s_write")
       \/ At(t, "r_loop") /\ th[t].elapsed <= th[t].arg.timeout

\* C33: whatever the interleaving of disconnect() with a concurrent send or
\* receive, whose is_connected check runs before the lock is taken, the send
\* or receive never calls write or read on a closed handle: it acts on the
\* open handle, or finds no handle and returns a failure result.
C33_NoCallOnClosedHandle ==
    [][\A t \in Threads :
          ReachesHandle(t) =>
              IF device # 0
              THEN hstate[device] = "open"
              ELSE /\ th'[t].pc = "idle"
                   /\ ~th'[t].result.ok
                   /\ th'[t].writes = th[t].writes
                   /\ th'[t].read = th[t].read]_vars

\* a send or receive passed its is_connected check, a disconnect() then
\* closed the handle, and the call returned failure without a write or read
C33_Witness ==
    \E t, u \in Threads :
        /\ th[t].op \in Sends \cup Receives /\ Idle(t)
        /\ th[t].caught /\ th[t].writes = 0 /\ ~th[t].read
        /\ ~th[t].result.ok
        /\ th[u].op = "disconnect" /\ Idle(u) /\ th[u].result.ok
        /\ ~connected /\ device = 0
        /\ \E h \in 1..MaxHandles : hstate[h] = "closed"


\* C34 (claim as stated): no stale bytes cross operations: in a sequential
\* run the bytes returned by the send_and_receive of command k are bytes the
\* device emitted in response to command k only; what was still queued of an
\* earlier response is never returned as part of a later response.
C34_NoStaleBytes ==
    \A t \in Threads :
        (th[t].op = "send_and_receive" /\ Idle(t) /\ th[t].writes = 1
            /\ th[t].got > 0)
        => ~th[t].foreign


WrittenFrame ==
    LET w == calls[CHOOSE j \in CallsOf({"write_iso", "write_raw"}) : TRUE]
    IN  IF w.fn = "write_iso"
        THEN build_iso_write_data(w.args[1], w.args[2], w.args[3]).value
        ELSE build_raw_write_data(w.args[1], w.args[2], w.args[3]).value

\* what a read of the card gives after a faithful write of that frame: the
\* tracks decoded from it in the mode of the write
ReadBack ==
    IF worker.format_id = "raw" THEN parse_raw_response(WrittenFrame).value
    ELSE parse_iso_response(WrittenFrame).value

\* the text read back for track n
ReadBackText(n) ==
    LET hit == {i \in 1..Len(ReadBack) : ReadBack[i].track_number = n}
    IN  ReadBack[CHOOSE i \in hit : TRUE].data

\* C36 (claim as stated): in the write panel's sequence the expected payload
\* handed to compare equals what the card holds after a faithful write of
\* the same inputs, track by track, in ISO mode (track 1 upper-cased on
\* write) and in RAW mode (hex text converted to bytes before writing).
C36_VerifyExpectsWhatWasWritten ==
    \A i \in CallsOf({"compare_card"}) :
        \A n \in 1..3 :
            Truthy(worker.track[n]) => calls[i].args[n] = ReadBackText(n)


\* the worker thread of the panel is running
WorkerRunning == worker.pc \in {"start", "write", "written", "compare"}

\* while a worker runs the Write button is insensitive
ButtonOffWhileRunning == WorkerRunning => panel.writing

\* the button is re-enabled only by the completion callback of the worker
\* that has finished, and a worker is started only with the button
\* sensitive, no worker running and nothing left to run for an earlier one;
\* its start makes the button insensitive
OneWorkerSteps ==
    /\ (panel.writing /\ ~panel'.writing) =>
          /\ worker.pc = "done"
          /\ idle # <<>>
          /\ Head(idle).fn = "_on_write_complete"
          /\ Head(idle).args[1] = worker.result
    /\ (worker' # worker /\ worker'.pc = "start") =>
          /\ ~panel.writing
          /\ ~WorkerRunning
          /\ idle = <<>>
          /\ panel'.writing

\* C37: the write panel keeps at most one write worker in flight: the Write
\* button is made insensitive before the worker is started and re-enabled
\* only by that worker's completion callback, so no second write or verify
\* sequence starts from the panel while one is running.
C37_OneWorkerInFlight == []ButtonOffWhileRunning /\ [][OneWorkerSteps]_vars

\* a first worker has completed, the button was re-enabled, and a second
\* worker is running with the button insensitive again
C37_Witness ==
    /\ worker.pc = "write"
    /\ panel.writing
    /\ panel.toast = "Card written successfully"
    /\ idle = <<>>

=============================================================================
